---- MODULE Spec2Model ----
(***************************************************************************)
(* rgrok: structural grep over the top-level items of Rust source files.   *)
(*                                                                         *)
(* Four specifications share this module:                                  *)
(*   SpanSpec     the byte-span table of grep_items and the item slice     *)
(*   OverlaySpec  highlight_matches_in_line                                *)
(*   Spec         the sequential and the parallel directory pipeline       *)
(*   MainSpec     the standalone binary of main.rs and its formatter       *)
(* Texts are sequences of one-character strings; offsets are 0-based byte  *)
(* offsets as in the Rust source, so v[k] of the source is At(v, k).       *)
(***************************************************************************)
EXTENDS Integers, Sequences, FiniteSets, TLC

VARIABLES
    \* ---- span table (grep_items, lib.rs 290-322) ----
    text,        \* file.contents
    byte_spans,  \* the table built by grep_items
    span,        \* (start, end) lines of the item being sliced
    item,        \* the slice &file.contents[span_start..span_end]
    spc,         \* "init" | "built" | "assert_failed" | "sliced" | "slice_panic"
    \* ---- match overlay (highlight_matches_in_line, lib.rs 375-400) ----
    ranges,      \* Vec<(Style, &str)> of one line
    ranges0,     \* the ranges as the highlighter returned them
    line_matches,\* the regex matches of the line, in find_iter order
    opc,         \* "init" | "done" | "panic"
    \* ---- pipeline (rgrok_dir, rgrok_dir_parallel, grep_items) ----
    re,          \* args.regex
    tree,        \* the entries of args.path, in the order Walk yields them
    mode,        \* "sequential" (rgrok_dir) | "parallel" (rgrok_dir_parallel)
    pc,          \* where the calling thread is
    next_entry,  \* rgrok_dir: index of the entry Walk yields next
    unvisited,   \* rgrok_dir_parallel: entries no walker worker has visited
    running,     \* number of walker workers still running
    panicked,    \* number of walker workers that panicked
    senders,     \* number of live send ends of the (file, syntax) channel
    chan,        \* the (file, syntax) channel, oldest message first
    sent,        \* history: files sent on chan, in send order
    handed,      \* history: files handed to grep_items in this run
    grep,        \* the running grep_items call
    rendered,    \* history: <<file, item>> pairs highlighted in this run
    sink,        \* what has been written to the output in this run
    seq_results, \* the results of the finished rgrok_dir run
    output,      \* args.output: "Stdout" | "Null"
    terminal,    \* what has reached the process's stdout in this run
    parsed,      \* history: <<file, thread>> of each syn::parse_file call
    \* ---- the standalone binary (main.rs) ----
    bin          \* the state of main: tree, pc, file, item, printed

spanVars    == <<text, byte_spans, span, item, spc>>
overlayVars == <<ranges, ranges0, line_matches, opc>>
pipeVars    == <<re, tree, mode, pc, next_entry, unvisited, running, panicked,
                 senders, chan, sent, handed, grep, rendered, sink, seq_results,
                 output, terminal, parsed>>
binVars     == <<bin>>
vars        == <<spanVars, overlayVars, pipeVars, binVars>>

\* The parts of the state a specification does not use.
SpanIdle ==
    /\ text = <<>>
    /\ byte_spans = <<>>
    /\ span = <<0, 0>>
    /\ item = <<>>
    /\ spc = "idle"

OverlayIdle ==
    /\ ranges = <<>>
    /\ ranges0 = <<>>
    /\ line_matches = <<>>
    /\ opc = "idle"

PipeIdle ==
    /\ re = [anchored |-> FALSE, lit |-> <<>>]
    /\ tree = <<>>
    /\ mode = "idle"
    /\ pc = "idle"
    /\ next_entry = 0
    /\ unvisited = {}
    /\ running = 0
    /\ panicked = 0
    /\ senders = 0
    /\ chan = <<>>
    /\ sent = <<>>
    /\ handed = <<>>
    /\ grep = [pc |-> "idle", file |-> 0, byte_spans |-> <<>>, pending |-> {}, rx |-> <<>>]
    /\ rendered = {}
    /\ sink = <<>>
    /\ seq_results = {}
    /\ output = "Null"
    /\ terminal = <<>>
    /\ parsed = {}

BinIdle == bin = [tree |-> <<>>, pc |-> "idle", file |-> 0, item |-> 0, printed |-> <<>>]

---------------------------------------------------------------------------
(* Sequence helpers with the source's 0-based indexing.                    *)

At(v, k) == v[k + 1]

InBounds(v, k) == k >= 0 /\ k < Len(v)

\* &s[a..b]
Slice(s, a, b) == SubSeq(s, a + 1, b)

Last(v) == v[Len(v)]

LF == "\n"
CR == "\r"

---------------------------------------------------------------------------
(* LINE_REGEX = "(.*\r?\n?)" and Regex::find_iter (regex crate).           *)

\* `.*` of a regex built with dot_matches_new_line: it runs to the end of the text.
DotStarAnyChar(s, p) == Len(s)

\* `.*` from offset p: greedy, `.` matches every character but \n.
RECURSIVE DotStar(_, _)
DotStar(s, p) ==
    IF p < Len(s) /\ At(s, p) # LF THEN DotStar(s, p + 1) ELSE p

\* `c?` from offset p: greedy optional character.
Optional(s, p, c) == IF p < Len(s) /\ At(s, p) = c THEN p + 1 ELSE p

\* LINE_REGEX written without its trailing `\n?`.
LineRegexEndNoLF(s, p) == Optional(s, DotStar(s, p), CR)

\* End offset of the leftmost-first match of LINE_REGEX starting at p
\* (every part is optional, so the regex matches at every offset).
LineRegexEnd(s, p) == Optional(s, Optional(s, DotStar(s, p), CR), LF)

\* Matches::next of the regex crate (e is the end of the match found at
\* last_end, computed once). The iterator holds last_end, where the
\* next search starts, and last_match, the end of the previous match (-1
\* for None). An empty match moves the search on by one, and is dropped,
\* with another call of next, when it ends where the previous match ended.
RECURSIVE MatchesNext(_, _)
MatchesNext(s, it) ==
    IF it.last_end > Len(s)
    THEN [some |-> FALSE, start |-> 0, end |-> 0, it |-> it]
    ELSE CHOOSE out \in
            {IF e = it.last_end
             THEN IF e = it.last_match
                  THEN MatchesNext(s, [last_end |-> e + 1, last_match |-> it.last_match])
                  ELSE [some |-> TRUE, start |-> it.last_end, end |-> e,
                        it |-> [last_end |-> e + 1, last_match |-> e]]
             ELSE [some |-> TRUE, start |-> it.last_end, end |-> e,
                   it |-> [last_end |-> e, last_match |-> e]] :
                e \in {LineRegexEnd(s, it.last_end)}} : TRUE

\* One turn of byte_spans.extend(LINE_REGEX.find_iter(..).scan(0, ..)):
\* the next match l (m, computed once), *acc += l.as_str().len(), push *acc.
ExtendTurn(s, st) ==
    IF st.done THEN st
    ELSE CHOOSE out \in
            {IF ~m.some THEN [st EXCEPT !.done = TRUE]
             ELSE [it    |-> m.it,
                   acc   |-> st.acc + (m.end - m.start),
                   table |-> Append(st.table, st.acc + (m.end - m.start)),
                   done  |-> FALSE] :
                m \in {MatchesNext(s, st.it)}} : TRUE

\* Up to k turns of the loop, one after the other, until the iterator is
\* spent: the state after the first turns is computed once (half is bound
\* to it), and the remaining turns start from it.
RECURSIVE ExtendTurns(_, _, _)
ExtendTurns(s, st, k) ==
    IF k = 0 THEN st
    ELSE IF k = 1 THEN ExtendTurn(s, st)
    ELSE CHOOSE out \in
            {IF half.done THEN half ELSE ExtendTurns(s, half, k - (k \div 2)) :
                half \in {ExtendTurns(s, st, k \div 2)}} : TRUE

\* let mut byte_spans = vec![0usize]; byte_spans.extend(..): every turn but
\* the last moves last_end on, so the iterator is spent after Len(s) + 2
\* turns (v is s, evaluated once).
ByteSpans(s) ==
    CHOOSE tbl \in
        {ExtendTurns(v, [it |-> [last_end |-> 0, last_match |-> -1],
                         acc |-> 0, table |-> <<0>>, done |-> FALSE],
                     Len(v) + 2).table : v \in {s}} : TRUE

\* assert_eq!(byte_spans.last().unwrap(), &file.contents.len())
SpansAssertHolds(tbl, s) == Last(tbl) = Len(s)

\* byte_spans[start], byte_spans[end] and &file.contents[span_start..span_end]:
\* each index and the slice range are bounds-checked by Rust.
SliceFaults(tbl, s, start, end) ==
    \/ ~InBounds(tbl, start)
    \/ ~InBounds(tbl, end)
    \/ At(tbl, start) > At(tbl, end)
    \/ At(tbl, end) > Len(s)

ItemSlice(tbl, s, start, end) == Slice(s, At(tbl, start), At(tbl, end))

---------------------------------------------------------------------------
(* Line numbering of the parser (proc_macro2 LineColumn): lines are        *)
(* 1-indexed and a line ends with its \n.                                  *)

LFCount(s) == Cardinality({k \in 1..Len(s) : s[k] = LF})

NumLines(s) == LFCount(s) + (IF s = <<>> \/ Last(s) # LF THEN 1 ELSE 0)

\* Byte offset at which line L begins; the text length past the last line.
LineStart(s, L) ==
    IF L = 1 THEN 0
    ELSE IF LFCount(s) < L - 1 THEN Len(s)
    ELSE CHOOSE k \in 1..Len(s) :
            s[k] = LF /\ Cardinality({j \in 1..k : s[j] = LF}) = L - 1

\* The text of the whole lines start..end, terminators included.
WholeLines(s, start, end) == Slice(s, LineStart(s, start), LineStart(s, end + 1))

---------------------------------------------------------------------------
(* SpanSpec: the table and the slice over every small text.                *)

MaxTextLen == 4

SpanAlphabet == {"a", CR, LF}

RECURSIVE SeqsUpTo(_, _)
SeqsUpTo(S, n) ==
    IF n = 0 THEN {<<>>}
    ELSE LET shorter == SeqsUpTo(S, n - 1) IN
         shorter \cup {Append(t, c) : t \in {u \in shorter : Len(u) = n - 1}, c \in S}

Texts == SeqsUpTo(SpanAlphabet, MaxTextLen)

SpanInit ==
    /\ text \in Texts
    /\ byte_spans = <<>>
    /\ span = <<0, 0>>
    /\ item = <<>>
    /\ spc = "init"
    /\ OverlayIdle
    /\ PipeIdle
    /\ BinIdle

\* lib.rs 292-302: build the table, then the assert_eq.
BuildSpans ==
    /\ spc = "init"
    /\ byte_spans' = ByteSpans(text)
    /\ spc' = IF SpansAssertHolds(ByteSpans(text), text) THEN "built" ELSE "assert_failed"
    /\ UNCHANGED <<text, span, item>>
    /\ UNCHANGED <<overlayVars, pipeVars, binVars>>

\* lib.rs 309-322: one item of the parsed file, spanning lines start..end.
SliceItem(start, end) ==
    /\ spc = "built"
    /\ span' = <<start, end>>
    /\ IF SliceFaults(byte_spans, text, start, end)
       THEN spc' = "slice_panic" /\ item' = <<>>
       ELSE spc' = "sliced" /\ item' = ItemSlice(byte_spans, text, start, end)
    /\ UNCHANGED <<text, byte_spans>>
    /\ UNCHANGED <<overlayVars, pipeVars, binVars>>

SpanNext ==
    \/ BuildSpans
    \/ \E start \in 1..NumLines(text) : \E end \in start..NumLines(text) :
          SliceItem(start, end)

SpanSpec == SpanInit /\ [][SpanNext]_vars

---------------------------------------------------------------------------
(* Claims about the span table and the slice (SpanSpec).                   *)

\* C8: for any text the table is well formed: table[0] = 0, the entries are
\* non-decreasing, table[L] is the offset where line L+1 begins (the text
\* length at EOF) for every line L of the text, and the last entry is the
\* text length, so the assert_eq of grep_items never fails.
C8_SpanTableWellFormed ==
    spc # "init" =>
        /\ spc # "assert_failed"
        /\ At(byte_spans, 0) = 0
        /\ \A k \in 1..(Len(byte_spans) - 1) : byte_spans[k] <= byte_spans[k + 1]
        /\ \A L \in 1..NumLines(text) :
              InBounds(byte_spans, L) /\ At(byte_spans, L) = LineStart(text, L + 1)
        /\ Last(byte_spans) = Len(text)

\* C8 witness: a text mixing \r\n with an unterminated last line has been indexed.
C8_Witness ==
    /\ spc = "built"
    /\ text = <<"a", CR, LF, "a">>
    /\ byte_spans = <<0, 3, 4>>

\* C9: slicing never faults: for every span 1 <= start <= end <= number of
\* lines both table reads are in bounds and
\* byte_spans[start] <= byte_spans[end] <= len(text).
C9_SliceNeverFaults ==
    spc # "init" =>
        /\ spc # "slice_panic"
        /\ \A s \in 1..NumLines(text) : \A e \in s..NumLines(text) :
              /\ InBounds(byte_spans, s)
              /\ InBounds(byte_spans, e)
              /\ At(byte_spans, s) <= At(byte_spans, e)
              /\ At(byte_spans, e) <= Len(text)
        /\ spc = "sliced" =>
              Len(item) = At(byte_spans, span[2]) - At(byte_spans, span[1])

\* C9 witness: a two-line item has been sliced to a non-empty substring.
C9_Witness ==
    /\ spc = "sliced"
    /\ span = <<1, 2>>
    /\ item # <<>>

\* C4: the slice taken for an item that is exactly the whole lines
\* start..end equals those lines byte for byte.
C4_SliceRoundTrip ==
    spc = "sliced" => item = WholeLines(text, span[1], span[2])

---------------------------------------------------------------------------
(* highlight_matches_in_line (lib.rs 367-400).                             *)

\* const HIGHLIGHT_COLOR: Color = Color { r: 255, g: 255, b: 80, a: 255 }
HIGHLIGHT_COLOR == <<255, 255, 80, 255>>

\* ranges[index].0.font_style = FontStyle::BOLD;
\* ranges[index].0.foreground = HIGHLIGHT_COLOR;
Emphasize(style) ==
    [style EXCEPT !.font_style = "BOLD", !.foreground = HIGHLIGHT_COLOR]

\* .scan(0, |acc, x| { *acc += len; Some(*acc) }) over a list of lengths.
RECURSIVE Scan(_, _)
Scan(lens, acc) ==
    IF lens = <<>> THEN <<>>
    ELSE <<acc + Head(lens)>> \o Scan(Tail(lens), acc + Head(lens))

\* rs: vec![0] extended by the running sum of the slice lengths.
Boundaries(rgs) == <<0>> \o Scan([i \in 1..Len(rgs) |-> Len(rgs[i].text)], 0)

\* slice::binary_search on the sorted rs: Ok(index) of an equal element,
\* else Err(insertion point).
BinarySearch(rs, x) ==
    IF \E i \in 0..(Len(rs) - 1) : At(rs, i) = x
    THEN [found |-> TRUE, index |-> CHOOSE i \in 0..(Len(rs) - 1) : At(rs, i) = x]
    ELSE [found |-> FALSE,
          index |-> Cardinality({i \in 0..(Len(rs) - 1) : At(rs, i) < x})]

\* ranges[index] = emphasized, or the index panic of Vec.
MarkRange(st, index) ==
    IF InBounds(st.ranges, index)
    THEN [st EXCEPT !.ranges[index + 1].style = Emphasize(@)]
    ELSE [st EXCEPT !.panic = TRUE]

\* The loop body with its Err arm left out: only a match start on a
\* boundary emphasizes.
HighlightMatchStartOnly(st, rs, m) ==
    LET r == BinarySearch(rs, m.start) IN
    IF r.found THEN MarkRange(st, r.index) ELSE st

\* The loop body for one match m (lib.rs 384-398).
HighlightMatch(st, rs, m) ==
    LET r == BinarySearch(rs, m.start) IN
    IF r.found
    THEN MarkRange(st, r.index)
    ELSE IF ~InBounds(rs, r.index)
         THEN [st EXCEPT !.panic = TRUE]            \* rs[new_index]
         ELSE IF At(rs, r.index) = m.end
              THEN IF r.index = 0
                   THEN [st EXCEPT !.panic = TRUE]  \* new_index - 1 on usize
                   ELSE IF InBounds(rs, r.index - 1)
                        THEN MarkRange(st, r.index - 1)
                        ELSE st
              ELSE st

\* for m in line_matches { ... }: a panic ends the loop.
RECURSIVE HighlightLoop(_, _, _)
HighlightLoop(st, rs, ms) ==
    IF ms = <<>> \/ st.panic THEN st
    ELSE HighlightLoop(HighlightMatch(st, rs, Head(ms)), rs, Tail(ms))

highlight_matches_in_line(rgs, ms) ==
    HighlightLoop([ranges |-> rgs, panic |-> FALSE], Boundaries(rgs), ms)

---------------------------------------------------------------------------
(* OverlaySpec: one highlighted line and its matches.                      *)

MaxLineLen == 6
MaxMatches == 2

\* The characters of the line: "fn foo", repeated.
LineChar(k) == At(<<"f", "n", " ", "f", "o", "o">>, k % 6)

LineText(n) == [k \in 1..n |-> LineChar(k - 1)]

\* Styles of the theme; neighbouring ranges differ.
ThemeStyle(i) ==
    [foreground |-> <<192, 197, 206, 255>>,
     background |-> <<43, 48, 59, 255>>,
     font_style |-> IF i % 2 = 0 THEN "NONE" ELSE "ITALIC"]

\* HighlightLines::highlight cuts the line at some offsets into ranges with
\* non-empty text that cover it.
RangesOf(n, cuts) ==
    LET edges == {0, n} \cup cuts
        nth(i) == CHOOSE e \in edges : Cardinality({d \in edges : d < e}) = i
    IN  [i \in 1..(Cardinality(edges) - 1) |->
            [style |-> ThemeStyle(i),
             text  |-> Slice(LineText(n), nth(i - 1), nth(i))]]

\* Regex::find_iter yields matches within the line, in order, not
\* overlapping; an empty match never touches the end of the match before it.
MatchesIn(n) == {m \in [start : 0..n, end : 0..n] : m.start <= m.end}

\* m can follow the matches ms.
Follows(ms, m) ==
    \/ ms = <<>>
    \/ m.start > Last(ms).end
    \/ /\ m.start = Last(ms).end
       /\ Last(ms).start < Last(ms).end
       /\ m.start < m.end

RECURSIVE MatchSeqsUpTo(_, _)
MatchSeqsUpTo(n, k) ==
    IF k = 0 THEN {<<>>}
    ELSE LET shorter == MatchSeqsUpTo(n, k - 1) IN
         shorter \cup
         {Append(x[1], x[2]) :
             x \in {y \in {u \in shorter : Len(u) = k - 1} \X MatchesIn(n) :
                        Follows(y[1], y[2])}}

MatchSeqs(n) == MatchSeqsUpTo(n, MaxMatches)

OverlayInit ==
    /\ \E n \in 1..MaxLineLen : \E cuts \in SUBSET (1..(n - 1)) :
          /\ ranges0 = RangesOf(n, cuts)
          /\ line_matches \in MatchSeqs(n)
    /\ ranges = ranges0
    /\ opc = "init"
    /\ SpanIdle
    /\ PipeIdle
    /\ BinIdle

HighlightLine ==
    /\ opc = "init"
    /\ LET st == highlight_matches_in_line(ranges, line_matches) IN
          /\ ranges' = st.ranges
          /\ opc' = IF st.panic THEN "panic" ELSE "done"
    /\ UNCHANGED <<ranges0, line_matches>>
    /\ UNCHANGED <<spanVars, pipeVars, binVars>>

OverlayNext == HighlightLine

OverlaySpec == OverlayInit /\ [][OverlayNext]_vars

\* A match emphasizes range i (0-based) of rgs.
MatchHits(rgs, m, i) ==
    LET rs == Boundaries(rgs)
        lo == At(rs, i)
        hi == At(rs, i + 1)
    IN  \/ m.start = lo
        \/ lo < m.start /\ m.start < hi /\ m.end = hi

\* C10: highlight_matches_in_line emphasizes a range iff some match starts
\* at the range's start boundary, or starts strictly inside the range and
\* ends at its end boundary; every other range keeps its style; the number
\* of ranges and every text slice are unchanged.
C10_OverlayBoundaryRule ==
    opc \in {"done", "panic"} =>
        /\ Len(ranges) = Len(ranges0)
        /\ \A i \in 1..Len(ranges) : ranges[i].text = ranges0[i].text
        /\ opc = "done" =>
              \A i \in 1..Len(ranges) :
                  ranges[i].style =
                      IF \E k \in 1..Len(line_matches) :
                            MatchHits(ranges0, line_matches[k], i - 1)
                      THEN Emphasize(ranges0[i].style)
                      ELSE ranges0[i].style

\* C10 witness: ranges "fn ", "foo" and a match at 3..6: range 1 and only
\* range 1 ends emphasized.
C10_Witness ==
    /\ opc = "done"
    /\ Len(ranges) = 2
    /\ ranges[1].text = <<"f", "n", " ">>
    /\ ranges[2].text = <<"f", "o", "o">>
    /\ line_matches = <<[start |-> 3, end |-> 6]>>
    /\ ranges[1].style = ranges0[1].style
    /\ ranges[2].style.font_style = "BOLD"
    /\ ranges[2].style.foreground = HIGHLIGHT_COLOR
    /\ ranges0[2].style.font_style # "BOLD"

---------------------------------------------------------------------------
(* The pipeline: rgrok_dir, rgrok_dir_parallel and grep_items.             *)

\* if byte_spans.len() > 100 (lib.rs 323)
LargeFileLimit == 100

\* Walker workers of WalkBuilder::threads(0): one per available core.
NumWorkers == 2

\* Longest directory listing.
MaxTree == 2

\* Regex::is_match for a literal, anchored with ^ at the start of the
\* haystack or not.
IsMatch(r, s) ==
    \E p \in 0..(Len(s) - Len(r.lit)) :
        /\ r.anchored => p = 0
        /\ Slice(s, p, p + Len(r.lit)) = r.lit

Patterns ==
    {[anchored |-> FALSE, lit |-> <<"b">>],
     [anchored |-> TRUE,  lit |-> <<"b">>],
     [anchored |-> FALSE, lit |-> <<"a">>]}

\* Entries a walk yields. ok: the walker yielded Ok(dir_entry); rust:
\* is_rust_file; readable: find_syntax_for_file and read_to_string succeed;
\* parses: syn::parse_file succeeds; items: the spans syn reports, in
\* declaration order.
FileEntry(readable, parses, contents, items) ==
    [ok |-> TRUE, rust |-> TRUE, readable |-> readable, parses |-> parses,
     contents |-> contents, items |-> items]

ItemSpan(t, start, end) == [item_type |-> t, start |-> start, end |-> end]

TwoItemFile ==
    FileEntry(TRUE, TRUE, <<"a", LF, "b", LF, "a", LF, "b", LF>>,
              <<ItemSpan("Fn", 1, 2), ItemSpan("Struct", 3, 4)>>)

OneItemFile ==
    FileEntry(TRUE, TRUE, <<"b", LF, "a", LF>>, <<ItemSpan("Fn", 1, 2)>>)

LargeFile ==
    FileEntry(TRUE, TRUE,
              <<"a", LF, "b", LF>> \o [k \in 1..LargeFileLimit |-> LF],
              <<ItemSpan("Fn", 1, 2)>>)

\* A file whose first line belongs to no item.
PreambleFile ==
    FileEntry(TRUE, TRUE, <<"a", LF, "b", LF, "b", LF>>, <<ItemSpan("Fn", 2, 3)>>)

UnparsableFile == FileEntry(TRUE, FALSE, <<"b", LF>>, <<>>)

UnreadableFile == FileEntry(FALSE, FALSE, <<>>, <<>>)

OtherFile == [FileEntry(TRUE, FALSE, <<>>, <<>>) EXCEPT !.rust = FALSE]

WalkError == [FileEntry(FALSE, FALSE, <<>>, <<>>) EXCEPT !.ok = FALSE, !.rust = FALSE]

Entries ==
    {TwoItemFile, OneItemFile, PreambleFile, LargeFile, UnparsableFile,
     UnreadableFile, OtherFile, WalkError}

Trees == SeqsUpTo(Entries, MaxTree) \ {<<>>}

\* Ok(dir_entry) with is_rust_file(&dir_entry)
IsRustFile(e) == e.ok /\ e.rust

GrepIdle == [pc |-> "idle", file |-> 0, byte_spans |-> <<>>, pending |-> {}, rx |-> <<>>]

\* Where the caller of grep_items continues.
CallerLoop == IF mode = "sequential" THEN "walk" ELSE "recv"

\* The thread that calls grep_items, and with it syn::parse_file: the
\* thread of rgrok_dir, or the thread of rgrok_dir_parallel that runs the
\* receive loop after walker.visit has returned.
CallerThread == IF mode = "sequential" THEN "main" ELSE "consumer"

\* A parse error that unwinds instead of returning.
ParseErrorPanics(caller) == "aborted"

\* match syn::parse_file(..) { Err(_) => return }: the caller goes on.
ParseErrorReturns(caller) == caller

\* The branch of the rayon closure that renders and sends (lib.rs 323-348):
\* nothing is sent from a file whose table has more than 100 entries.
SendsResult(tbl, r, slice) == Len(tbl) <= LargeFileLimit /\ IsMatch(r, slice)

\* The highlighted slice followed by writeln!(writer, "\x1b[0m").
RenderItem(slice) == slice \o <<"ESC[0m", LF>>

GrepResult(f, i, slice) ==
    [file |-> f, item |-> i,
     item_type |-> tree[f].items[i].item_type,
     line_range |-> <<tree[f].items[i].start, tree[f].items[i].end>>,
     text |-> RenderItem(slice)]

\* TerminalPrinter::write_with frames the text (rgrok_dir); Output keeps
\* the default write_with, which writes the text alone (rgrok_dir_parallel).
Framed == mode = "sequential"

\* One write_with call followed by output.flush() (lib.rs 359-363).
Written(r, framed) == [result |-> r, framed |-> framed, flushed |-> TRUE]

\* A write that puts the new result before what is on the sink.
WriteResultFirst(snk, r, framed) == <<Written(r, framed)>> \o snk

\* A write that puts the new result before the last one on the sink.
WriteResultBeforeLast(snk, r, framed) ==
    IF snk = <<>> THEN <<Written(r, framed)>>
    ELSE Append(SubSeq(snk, 1, Len(snk) - 1), Written(r, framed)) \o <<Last(snk)>>

\* output.write_with(format_args!("{}", string), (line_range, item_type))
\* and output.flush(): the results are on the sink in write order.
WriteResult(snk, r, framed) == Append(snk, Written(r, framed))

\* The pieces write_with hands to the output's write, in order:
\* TerminalPrinter puts the line, the descriptor, the line before the text
\* and the line and an empty line after it; the default write_with of
\* Compositor writes the text alone.
Composite(r, framed) ==
    IF framed
    THEN <<"line", <<r.item_type, r.line_range>>, "line", r.text, "line", "">>
    ELSE <<r.text>>

\* An Output whose Null arm writes to stdout as well.
OutputWriteThrough(out, buf) == [n |-> Len(buf), stdout |-> buf]

\* impl Write for Output / TerminalPrinter: Stdout hands buf to
\* std::io::stdout() (taken to accept it whole), Null returns Ok(buf.len())
\* and touches nothing.
OutputWrite(out, buf) ==
    [n |-> Len(buf), stdout |-> IF out = "Stdout" THEN buf ELSE <<>>]

ResultSet(snk) == {snk[k].result : k \in 1..Len(snk)}

\* grep_items up to the creation of its channel (lib.rs 285-303); tbl is
\* byte_spans, built once.
GrepItemsCall(f) ==
    /\ handed' = Append(handed, f)
    /\ parsed' = parsed \cup {<<f, CallerThread>>}
    /\ IF ~tree[f].parses
       THEN grep' = GrepIdle /\ pc' = ParseErrorReturns(CallerLoop)
       ELSE \E tbl \in {ByteSpans(tree[f].contents)} :
               IF ~SpansAssertHolds(tbl, tree[f].contents)
               THEN grep' = GrepIdle /\ pc' = "aborted"
               ELSE /\ grep' = [pc |-> "tasks", file |-> f, byte_spans |-> tbl,
                                pending |-> 1..Len(tree[f].items), rx |-> <<>>]
                    /\ pc' = "grep_items"

\* One closure call of into_par_iter().for_each (lib.rs 316-349); rayon
\* runs the calls in any order.
RayonTask(i) ==
    /\ pc = "grep_items"
    /\ grep.pc = "tasks"
    /\ i \in grep.pending
    /\ LET f     == tree[grep.file]
           it    == f.items[i]
           tbl   == grep.byte_spans
       IN  IF SliceFaults(tbl, f.contents, it.start, it.end)
           THEN /\ pc' = "aborted"
                /\ grep' = [grep EXCEPT !.pc = "panicked"]
                /\ UNCHANGED rendered
           ELSE LET slice == ItemSlice(tbl, f.contents, it.start, it.end) IN
                /\ pc' = pc
                /\ IF SendsResult(tbl, re, slice)
                   THEN /\ grep' = [grep EXCEPT
                                       !.pending = @ \ {i},
                                       !.rx = Append(@, GrepResult(grep.file, i, slice))]
                        /\ rendered' = rendered \cup {<<grep.file, i>>}
                   ELSE /\ grep' = [grep EXCEPT !.pending = @ \ {i}]
                        /\ UNCHANGED rendered
    /\ UNCHANGED <<re, output, tree, mode, next_entry, unvisited, running, panicked,
                   senders, chan, sent, handed, sink, seq_results, parsed, terminal>>
    /\ UNCHANGED <<spanVars, overlayVars, binVars>>

\* for_each has returned: drop(tx) (lib.rs 351).
GrepDropTx ==
    /\ pc = "grep_items"
    /\ grep.pc = "tasks"
    /\ grep.pending = {}
    /\ grep' = [grep EXCEPT !.pc = "drain"]
    /\ UNCHANGED <<re, output, tree, mode, pc, next_entry, unvisited, running,
                   panicked, senders, chan, sent, handed, rendered, sink,
                   seq_results, parsed, terminal>>
    /\ UNCHANGED <<spanVars, overlayVars, binVars>>

\* while let Ok(GrepResult{..}) = rx.recv(): one result written and flushed.
GrepRecv ==
    /\ pc = "grep_items"
    /\ grep.pc = "drain"
    /\ grep.rx # <<>>
    /\ sink' = WriteResult(sink, Head(grep.rx), Framed)
    /\ terminal' = terminal \o OutputWrite(output, Composite(Head(grep.rx), Framed)).stdout
    /\ grep' = [grep EXCEPT !.rx = Tail(@)]
    /\ UNCHANGED <<re, output, tree, mode, pc, next_entry, unvisited, running,
                   panicked, senders, chan, sent, handed, rendered, seq_results,
                   parsed>>
    /\ UNCHANGED <<spanVars, overlayVars, binVars>>

\* A receive that reports the disconnect as soon as tx is dropped.
InnerRecvDisconnectedEarly(rx, gpc) == gpc = "drain"

\* rx.recv() of grep_items is Err: tx is dropped and the channel is empty.
InnerRecvDisconnected(rx, gpc) == gpc = "drain" /\ rx = <<>>

\* rx.recv() is Err: the channel is empty and tx is dropped; grep_items returns.
GrepReturn ==
    /\ pc = "grep_items"
    /\ InnerRecvDisconnected(grep.rx, grep.pc)
    /\ grep' = GrepIdle
    /\ pc' = CallerLoop
    /\ UNCHANGED <<re, output, tree, mode, next_entry, unvisited, running, panicked,
                   senders, chan, sent, handed, rendered, sink, seq_results, parsed,
                   terminal>>
    /\ UNCHANGED <<spanVars, overlayVars, binVars>>

(* rgrok_dir (lib.rs 166-188) *)

\* Err(_) from the walker, or not a Rust file.
SeqSkip ==
    /\ mode = "sequential" /\ pc = "walk"
    /\ next_entry <= Len(tree)
    /\ ~IsRustFile(tree[next_entry])
    /\ next_entry' = next_entry + 1
    /\ UNCHANGED <<re, output, tree, mode, pc, unvisited, running, panicked, senders,
                   chan, sent, handed, grep, rendered, sink, seq_results, parsed,
                   terminal>>
    /\ UNCHANGED <<spanVars, overlayVars, binVars>>

\* find_syntax_for_file(..)? or parse_file(dir_entry)? returns the error.
SeqReadFail ==
    /\ mode = "sequential" /\ pc = "walk"
    /\ next_entry <= Len(tree)
    /\ IsRustFile(tree[next_entry])
    /\ ~tree[next_entry].readable
    /\ pc' = "failed"
    /\ UNCHANGED <<re, output, tree, mode, next_entry, unvisited, running, panicked,
                   senders, chan, sent, handed, grep, rendered, sink, seq_results,
                   parsed, terminal>>
    /\ UNCHANGED <<spanVars, overlayVars, binVars>>

SeqGrep ==
    /\ mode = "sequential" /\ pc = "walk"
    /\ next_entry <= Len(tree)
    /\ IsRustFile(tree[next_entry])
    /\ tree[next_entry].readable
    /\ next_entry' = next_entry + 1
    /\ GrepItemsCall(next_entry)
    /\ UNCHANGED <<re, output, tree, mode, unvisited, running, panicked, senders,
                   chan, sent, rendered, sink, seq_results, terminal>>
    /\ UNCHANGED <<spanVars, overlayVars, binVars>>

\* The walk is exhausted: Ok(()).
SeqReturn ==
    /\ mode = "sequential" /\ pc = "walk"
    /\ next_entry > Len(tree)
    /\ pc' = "returned"
    /\ UNCHANGED <<re, output, tree, mode, next_entry, unvisited, running, panicked,
                   senders, chan, sent, handed, grep, rendered, sink, seq_results,
                   parsed, terminal>>
    /\ UNCHANGED <<spanVars, overlayVars, binVars>>

(* rgrok_dir_parallel (lib.rs 190-256, parallel.rs 31-97) *)

\* A block end that keeps vbuilder, and with it its send end, alive.
KeepVBuilder(n) == n

\* The block around walker.visit ends: vbuilder and its tx are dropped.
DropVBuilder(n) == n - 1

\* A receive that reports the disconnect before the channel is drained.
RecvDisconnectedEarly(ch, n) == n = 0

\* rx.recv() is Err only on an empty channel with no send end left.
RecvDisconnected(ch, n) == ch = <<>> /\ n = 0

\* if self.re.is_match(&file.contents)
VisitorSends(r, e) == IsMatch(r, e.contents)

\* The benchmark runs rgrok_dir, then rgrok_dir_parallel with the same
\* arguments: the channel is created, vbuilder takes tx, and walker.visit
\* builds one Visitor (a clone of tx) per worker.
StartParallel ==
    /\ mode = "sequential"
    /\ pc \in {"returned", "failed"}
    /\ mode' = "parallel"
    /\ pc' = "visit"
    /\ seq_results' = ResultSet(sink)
    /\ sink' = <<>>
    /\ terminal' = <<>>
    /\ handed' = <<>>
    /\ parsed' = {}
    /\ rendered' = {}
    /\ next_entry' = 0
    /\ unvisited' = 1..Len(tree)
    /\ running' = NumWorkers
    /\ panicked' = 0
    /\ senders' = 1 + NumWorkers
    /\ chan' = <<>>
    /\ sent' = <<>>
    /\ grep' = GrepIdle
    /\ UNCHANGED <<re, output, tree>>
    /\ UNCHANGED <<spanVars, overlayVars, binVars>>

\* Visitor::visit on Err(_) or on an entry that is no Rust file: Continue.
VisitSkip(e) ==
    /\ mode = "parallel" /\ pc = "visit"
    /\ running > 0
    /\ e \in unvisited
    /\ ~IsRustFile(tree[e])
    /\ unvisited' = unvisited \ {e}
    /\ UNCHANGED <<re, output, tree, mode, pc, next_entry, running, panicked,
                   senders, chan, sent, handed, grep, rendered, sink, seq_results,
                   parsed, terminal>>
    /\ UNCHANGED <<spanVars, overlayVars, binVars>>

\* Visitor::visit: an unwrap panics; the unwinding worker drops its Visitor.
VisitPanic(e) ==
    /\ mode = "parallel" /\ pc = "visit"
    /\ running > 0
    /\ e \in unvisited
    /\ IsRustFile(tree[e])
    /\ ~tree[e].readable
    /\ unvisited' = unvisited \ {e}
    /\ running' = running - 1
    /\ panicked' = panicked + 1
    /\ senders' = senders - 1
    /\ UNCHANGED <<re, output, tree, mode, pc, next_entry, chan, sent, handed, grep,
                   rendered, sink, seq_results, parsed, terminal>>
    /\ UNCHANGED <<spanVars, overlayVars, binVars>>

\* Visitor::visit on a readable Rust file: send it when the pattern matches
\* the whole contents (the channel is unbounded: send never blocks).
VisitFile(e) ==
    /\ mode = "parallel" /\ pc = "visit"
    /\ running > 0
    /\ e \in unvisited
    /\ IsRustFile(tree[e])
    /\ tree[e].readable
    /\ unvisited' = unvisited \ {e}
    /\ IF VisitorSends(re, tree[e])
       THEN chan' = Append(chan, e) /\ sent' = Append(sent, e)
       ELSE UNCHANGED <<chan, sent>>
    /\ UNCHANGED <<re, output, tree, mode, pc, next_entry, running, panicked,
                   senders, handed, grep, rendered, sink, seq_results, parsed,
                   terminal>>
    /\ UNCHANGED <<spanVars, overlayVars, binVars>>

\* A worker finds no work left and ends: its Visitor is dropped.
WorkerQuit ==
    /\ mode = "parallel" /\ pc = "visit"
    /\ running > 0
    /\ unvisited = {}
    /\ running' = running - 1
    /\ senders' = senders - 1
    /\ UNCHANGED <<re, output, tree, mode, pc, next_entry, unvisited, panicked, chan,
                   sent, handed, grep, rendered, sink, seq_results, parsed, terminal>>
    /\ UNCHANGED <<spanVars, overlayVars, binVars>>

\* A worker panicked: walker.visit never returns to rgrok_dir_parallel.
VisitAbort ==
    /\ mode = "parallel" /\ pc = "visit"
    /\ panicked > 0
    /\ pc' = "aborted"
    /\ UNCHANGED <<re, output, tree, mode, next_entry, unvisited, running, panicked,
                   senders, chan, sent, handed, grep, rendered, sink, seq_results,
                   parsed, terminal>>
    /\ UNCHANGED <<spanVars, overlayVars, binVars>>

\* A visit that returns while workers are still running.
VisitDetached(run) == TRUE

\* WalkParallel::visit returns after joining every worker thread.
VisitJoined(run) == run = 0

\* walker.visit has joined every worker and returns; the block ends.
VisitReturn ==
    /\ mode = "parallel" /\ pc = "visit"
    /\ VisitJoined(running)
    /\ panicked = 0
    /\ senders' = DropVBuilder(senders)
    /\ pc' = "recv"
    /\ UNCHANGED <<re, output, tree, mode, next_entry, unvisited, running, panicked,
                   chan, sent, handed, grep, rendered, sink, seq_results, parsed,
                   terminal>>
    /\ UNCHANGED <<spanVars, overlayVars, binVars>>

\* while let Ok((file, syntax)) = rx.recv() { grep_items(..) }
ParRecv ==
    /\ mode = "parallel" /\ pc = "recv"
    /\ chan # <<>>
    /\ chan' = Tail(chan)
    /\ GrepItemsCall(Head(chan))
    /\ UNCHANGED <<re, output, tree, mode, next_entry, unvisited, running, panicked,
                   senders, sent, rendered, sink, seq_results, terminal>>
    /\ UNCHANGED <<spanVars, overlayVars, binVars>>

\* rx.recv() is Err: the loop ends, Ok(()).
ParReturn ==
    /\ mode = "parallel" /\ pc = "recv"
    /\ RecvDisconnected(chan, senders)
    /\ pc' = "returned"
    /\ UNCHANGED <<re, output, tree, mode, next_entry, unvisited, running, panicked,
                   senders, chan, sent, handed, grep, rendered, sink, seq_results,
                   parsed, terminal>>
    /\ UNCHANGED <<spanVars, overlayVars, binVars>>

Init ==
    /\ re \in Patterns
    /\ tree \in Trees
    /\ mode = "sequential"
    /\ pc = "walk"
    /\ next_entry = 1
    /\ unvisited = {}
    /\ running = 0
    /\ panicked = 0
    /\ senders = 0
    /\ chan = <<>>
    /\ sent = <<>>
    /\ handed = <<>>
    /\ grep = GrepIdle
    /\ rendered = {}
    /\ sink = <<>>
    /\ seq_results = {}
    /\ output \in {"Stdout", "Null"}
    /\ terminal = <<>>
    /\ parsed = {}
    /\ SpanIdle
    /\ OverlayIdle
    /\ BinIdle

Next ==
    \/ SeqSkip
    \/ SeqReadFail
    \/ SeqGrep
    \/ SeqReturn
    \/ \E i \in grep.pending : RayonTask(i)
    \/ GrepDropTx
    \/ GrepRecv
    \/ GrepReturn
    \/ StartParallel
    \/ \E e \in unvisited : VisitSkip(e)
    \/ \E e \in unvisited : VisitPanic(e)
    \/ \E e \in unvisited : VisitFile(e)
    \/ WorkerQuit
    \/ VisitAbort
    \/ VisitReturn
    \/ ParRecv
    \/ ParReturn

Spec == Init /\ [][Next]_vars

\* Threads that can run are scheduled, and every step of the run is the
\* step of some thread.
FairSpec == Spec /\ WF_vars(Next)

---------------------------------------------------------------------------
(* Claims about the pipeline (Spec, FairSpec).                             *)

\* The items of file f whose slice the pattern matches.
Qualifying(f) ==
    LET c == tree[f].contents IN
    {i \in 1..Len(tree[f].items) :
        IsMatch(re, ItemSlice(ByteSpans(c), c, tree[f].items[i].start,
                              tree[f].items[i].end))}

\* The items of file f with a result on the sink.
Emitted(f) ==
    {sink[k].result.item : k \in {j \in 1..Len(sink) : sink[j].result.file = f}}

\* No Rust file of the tree makes a worker's unwrap panic.
AllReadable == \A k \in 1..Len(tree) : IsRustFile(tree[k]) => tree[k].readable

\* C1: when rgrok_dir_parallel returns, every send end is dropped, the
\* channel is empty, and every file a worker sent has been handed to
\* grep_items exactly once.
C1_AllSentReceivedOnce ==
    (mode = "parallel" /\ pc = "returned") =>
        /\ senders = 0
        /\ chan = <<>>
        /\ Len(handed) = Len(sent)
        /\ \A k \in 1..Len(sent) :
              Cardinality({j \in 1..Len(handed) : handed[j] = sent[k]}) = 1

\* C1 witness: a parallel run returned after two files were sent and results written.
C1_Witness ==
    /\ mode = "parallel"
    /\ pc = "returned"
    /\ Len(sent) = 2
    /\ sink # <<>>

\* C2: a parallel run in which no worker fails always completes: from the
\* start of walker.visit the run reaches the return of rgrok_dir_parallel.
C2_ParallelRunCompletes ==
    (mode = "parallel" /\ pc = "visit" /\ AllReadable)
        ~> (mode = "parallel" /\ pc = "returned")

\* C2 witness: a parallel run over two entries, none failing, has returned
\* after the consumer received a file.
C2_Witness ==
    /\ mode = "parallel"
    /\ pc = "returned"
    /\ AllReadable
    /\ Len(tree) = 2
    /\ Len(handed) >= 1

\* C3: for every parsed file, of any line count, grep_items emits a result
\* for an item iff the pattern matches the item's slice, and highlights
\* only such items.
C3_EmitsIffSliceMatches ==
    pc = "returned" =>
        \A k \in 1..Len(handed) :
            tree[handed[k]].parses =>
                /\ Emitted(handed[k]) = Qualifying(handed[k])
                /\ {i \in 1..Len(tree[handed[k]].items) : <<handed[k], i>> \in rendered}
                      \subseteq Qualifying(handed[k])

\* C5: rgrok_dir_parallel produces the same set of results as rgrok_dir
\* for the same tree and pattern.
C5_ParallelSameResultSet ==
    (mode = "parallel" /\ pc = "returned") => ResultSet(sink) = seq_results

\* C6: rgrok_dir writes the results of one file in declaration order.
C6_DeclarationOrderInFile ==
    mode = "sequential" =>
        \A p \in 1..Len(sink) : \A q \in (p + 1)..Len(sink) :
            sink[p].result.file = sink[q].result.file =>
                sink[p].result.item < sink[q].result.item

\* C7: rgrok_dir writes every result of a file before any result of a
\* file the walker yields later.
C7_FilesInWalkOrder ==
    mode = "sequential" =>
        \A p \in 1..Len(sink) : \A q \in (p + 1)..Len(sink) :
            sink[p].result.file <= sink[q].result.file

\* C7 witness: results of two files are on the sink of a sequential run.
C7_Witness ==
    /\ mode = "sequential"
    /\ \E p \in 1..Len(sink) : \E q \in 1..Len(sink) :
          sink[p].result.file < sink[q].result.file

\* C11: in sequential and in parallel mode every result on the sink was
\* written framed (line, descriptor, line, text, line, empty line) and the
\* sink was flushed after it.
C11_EveryResultFramed ==
    \A k \in 1..Len(sink) :
        /\ sink[k].flushed
        /\ Composite(sink[k].result, sink[k].framed) =
              <<"line", <<sink[k].result.item_type, sink[k].result.line_range>>,
                "line", sink[k].result.text, "line", "">>

\* C12: a file that cannot be read is skipped and the walk goes on, in both
\* modes: the run neither returns the error nor unwinds, and when it has
\* returned every readable Rust file of the tree was processed.
C12_ReadFailureSkipped ==
    /\ pc \notin {"failed", "aborted"}
    /\ pc = "returned" =>
          \A k \in 1..Len(tree) :
              (IsRustFile(tree[k]) /\ tree[k].readable) =>
                  IF mode = "sequential"
                  THEN \E j \in 1..Len(handed) : handed[j] = k
                  ELSE k \notin unvisited

\* The table of file f has at most LargeFileLimit entries.
SmallFile(f) == Len(ByteSpans(tree[f].contents)) <= LargeFileLimit

\* The Rust files of the tree, in walk order.
RustFiles == SelectSeq([k \in 1..Len(tree) |-> k], LAMBDA k : IsRustFile(tree[k]))

\* C13: a file the parser rejects contributes no result and does not abort
\* the run, in both modes: no result on the sink comes from such a file,
\* a run whose files are all readable never fails or unwinds, and when it
\* has returned every file handed to grep_items that parses (and is not
\* over the large-file limit) has all its qualifying results on the sink.
C13_ParseErrorContributesNothing ==
    /\ \A k \in 1..Len(sink) : tree[sink[k].result.file].parses
    /\ AllReadable => pc \notin {"failed", "aborted"}
    /\ (AllReadable /\ pc = "returned") =>
          /\ mode = "sequential" => handed = RustFiles
          /\ mode = "parallel" => Len(handed) = Len(sent)
          /\ \A k \in 1..Len(handed) :
                (tree[handed[k]].parses /\ SmallFile(handed[k])) =>
                    Emitted(handed[k]) = Qualifying(handed[k])

\* C13 witness: a sequential run over a rejected file followed by a file
\* with two matching items has returned with both results written.
C13_Witness ==
    /\ mode = "sequential"
    /\ pc = "returned"
    /\ tree = <<UnparsableFile, TwoItemFile>>
    /\ handed = <<1, 2>>
    /\ Len(sink) = 2

\* C14: in parallel mode the parser is never called on the consumer
\* thread, the thread that runs the receive loop of rgrok_dir_parallel.
C14_ParserOffConsumerThread ==
    mode = "parallel" => \A c \in parsed : c[2] # "consumer"

\* C15: in parallel mode a worker sends a file only if the slice of at
\* least one of its items matches the pattern.
C15_SendsOnlyMatchingFiles ==
    \A k \in 1..Len(sent) : Qualifying(sent[k]) # {}

\* C17: with Output::Null every write returns Ok with the length of its
\* input and nothing reaches the terminal, in sequential and parallel runs.
C17_NullSinkWritesNothing ==
    output = "Null" =>
        /\ terminal = <<>>
        /\ \A k \in 1..Len(sink) :
              LET buf == Composite(sink[k].result, sink[k].framed) IN
              OutputWrite(output, buf) = [n |-> Len(buf), stdout |-> <<>>]

\* C17 witness: with Output::Null the sequential and then the parallel run
\* have both written results and returned.
C17_Witness ==
    /\ output = "Null"
    /\ mode = "parallel"
    /\ pc = "returned"
    /\ seq_results # {}
    /\ sink # <<>>

\* The number of entries of a sequence of results that are item i of file f.
CountOf(rs, f, i) ==
    Cardinality({k \in 1..Len(rs) : rs[k].file = f /\ rs[k].item = i})

\* C18: inside grep_items every GrepResult a rayon task sent is received
\* and written exactly once before grep_items returns: nothing of the file
\* is written while tasks may still send, the receive loop runs only after
\* every task is done and tx is dropped, and each result sent is either
\* still on the channel of the running call or on the sink, once.
C18_InnerChannelDrained ==
    /\ grep.pc = "tasks" => \A k \in 1..Len(sink) : sink[k].result.file # grep.file
    /\ grep.pc = "drain" => grep.pending = {}
    /\ \A fi \in rendered :
          CountOf([k \in 1..Len(sink) |-> sink[k].result], fi[1], fi[2])
            + (IF fi[1] = grep.file THEN CountOf(grep.rx, fi[1], fi[2]) ELSE 0) = 1

\* C18 witness: grep_items has returned after two tasks sent a result each
\* and both were written.
C18_Witness ==
    /\ grep = GrepIdle
    /\ Cardinality(rendered) = 2
    /\ Len(sink) = 2
    /\ sink[1].result.file = sink[2].result.file

\* C19: highlight_matches_in_line never indexes outside ranges or rs.
C19_NoIndexFault == opc # "panic"

\* C20: in both modes the results of different files never interleave on
\* the sink: between two results of a file there is no result of another.
C20_FilesNeverInterleave ==
    \A p \in 1..Len(sink) : \A q \in (p + 1)..Len(sink) : \A r \in (q + 1)..Len(sink) :
        sink[p].result.file = sink[r].result.file =>
            sink[q].result.file = sink[p].result.file

\* C20 witness: a parallel run has written two results of each of two files.
C20_Witness ==
    /\ mode = "parallel"
    /\ Len(sink) = 4
    /\ Cardinality({sink[k].result.file : k \in 1..4}) = 2

---------------------------------------------------------------------------
(* MainSpec: the standalone binary (main.rs), which prints every fn item   *)
(* of every Rust file after piping it through the rustfmt subprocess.      *)

\* What the subprocess does in one call of rustfmt: it runs and formats,
\* it cannot be spawned, or writing to its stdin fails.
FormatterOutcomes == {"ok", "absent", "stdin_fails"}

\* function.to_token_stream().to_string(): the tokens of the item on one
\* line, the line terminators of the source gone.
TokenString(s) == SelectSeq(s, LAMBDA c : c \notin {CR, LF})

\* What a running rustfmt writes to its stdout: the code, newline-terminated.
Formatted(s) == s \o <<LF>>

\* rustfmt of lib.rs (85-99): spawn()?, write_all(..)? and
\* wait_with_output()? return the error to the caller; no function of the
\* library calls it.
rustfmt(string, outcome) ==
    IF outcome = "ok"
    THEN [ok |-> TRUE, value |-> Formatted(string)]
    ELSE [ok |-> FALSE, value |-> <<>>]

\* rustfmt of main.rs (23-31): spawn().unwrap() panics when the child
\* cannot be spawned; write_all(..).unwrap() panics on a thread of its own,
\* which main never joins, and wait_with_output() then yields what the
\* child wrote to its stdout without its input: nothing.
main_rustfmt(string, outcome) ==
    CASE outcome = "ok"          -> [panic |-> FALSE, output |-> Formatted(string)]
      [] outcome = "absent"      -> [panic |-> TRUE,  output |-> <<>>]
      [] outcome = "stdin_fails" -> [panic |-> FALSE, output |-> <<>>]

\* The text of item i of entry e as the source file holds it.
ItemText(e, i) == WholeLines(e.contents, e.items[i].start, e.items[i].end)

BinInit ==
    /\ \E t \in Trees :
          bin = [tree |-> t, pc |-> "walk", file |-> 1, item |-> 0, printed |-> <<>>]
    /\ SpanIdle
    /\ OverlayIdle
    /\ PipeIdle

\* Err(_) from the walker, a directory, or no .rs extension.
MainSkip ==
    /\ bin.pc = "walk"
    /\ bin.file <= Len(bin.tree)
    /\ ~IsRustFile(bin.tree[bin.file])
    /\ bin' = [bin EXCEPT !.file = @ + 1]
    /\ UNCHANGED <<spanVars, overlayVars, pipeVars>>

\* std::fs::read_to_string(..).unwrap() on a file that cannot be read.
MainReadPanic ==
    /\ bin.pc = "walk"
    /\ bin.file <= Len(bin.tree)
    /\ IsRustFile(bin.tree[bin.file])
    /\ ~bin.tree[bin.file].readable
    /\ bin' = [bin EXCEPT !.pc = "read_panic"]
    /\ UNCHANGED <<spanVars, overlayVars, pipeVars>>

\* syn::parse_file(&contents).unwrap(): panic on a parse error, else the
\* loop over file.items starts.
MainParse ==
    /\ bin.pc = "walk"
    /\ bin.file <= Len(bin.tree)
    /\ IsRustFile(bin.tree[bin.file])
    /\ bin.tree[bin.file].readable
    /\ bin' = IF bin.tree[bin.file].parses
              THEN [bin EXCEPT !.pc = "items", !.item = 1]
              ELSE [bin EXCEPT !.pc = "parse_panic"]
    /\ UNCHANGED <<spanVars, overlayVars, pipeVars>>

\* if let Fn(_) = function fails: the item is passed over.
MainItemSkip ==
    /\ bin.pc = "items"
    /\ bin.item <= Len(bin.tree[bin.file].items)
    /\ bin.tree[bin.file].items[bin.item].item_type # "Fn"
    /\ bin' = [bin EXCEPT !.item = @ + 1]
    /\ UNCHANGED <<spanVars, overlayVars, pipeVars>>

\* A fn item: rustfmt(fn_string), then every line of its output is
\* highlighted and printed (main.rs 50-58).
MainFormat(outcome) ==
    /\ bin.pc = "items"
    /\ bin.item <= Len(bin.tree[bin.file].items)
    /\ bin.tree[bin.file].items[bin.item].item_type = "Fn"
    /\ LET fn_string == TokenString(ItemText(bin.tree[bin.file], bin.item))
           r == main_rustfmt(fn_string, outcome)
       IN  bin' = IF r.panic
                  THEN [bin EXCEPT !.pc = "fmt_panic"]
                  ELSE [bin EXCEPT
                           !.item = @ + 1,
                           !.printed = Append(@, [file |-> bin.file, item |-> bin.item,
                                                  formatter |-> outcome,
                                                  text |-> r.output])]
    /\ UNCHANGED <<spanVars, overlayVars, pipeVars>>

\* The items of the file are exhausted: the walk goes on.
MainNextFile ==
    /\ bin.pc = "items"
    /\ bin.item > Len(bin.tree[bin.file].items)
    /\ bin' = [bin EXCEPT !.pc = "walk", !.file = @ + 1, !.item = 0]
    /\ UNCHANGED <<spanVars, overlayVars, pipeVars>>

\* The walk is exhausted: main returns.
MainReturn ==
    /\ bin.pc = "walk"
    /\ bin.file > Len(bin.tree)
    /\ bin' = [bin EXCEPT !.pc = "returned"]
    /\ UNCHANGED <<spanVars, overlayVars, pipeVars>>

MainNext ==
    \/ MainSkip
    \/ MainReadPanic
    \/ MainParse
    \/ MainItemSkip
    \/ \E outcome \in FormatterOutcomes : MainFormat(outcome)
    \/ MainNextFile
    \/ MainReturn

MainSpec == BinInit /\ [][MainNext]_vars

\* C16: when the formatter subprocess is absent or fails, the run does not
\* crash and the item's result is not dropped: the unformatted text is
\* printed in its place, and the remaining items and files are processed.
C16_FormatterFailureDegrades ==
    /\ bin.pc # "fmt_panic"
    /\ \A k \in 1..Len(bin.printed) :
          bin.printed[k].formatter # "ok" =>
              bin.printed[k].text =
                  TokenString(ItemText(bin.tree[bin.printed[k].file], bin.printed[k].item))

---------------------------------------------------------------------------
(* Producers and consumer of rgrok_dir_parallel (Spec).                    *)

\* The files a walker worker sends: readable Rust files whose contents the
\* pattern matches.
MatchingFiles ==
    {k \in 1..Len(tree) :
        IsRustFile(tree[k]) /\ tree[k].readable /\ VisitorSends(re, tree[k])}

\* C21: in parallel mode producers and consumer never run at the same
\* time: while walker.visit runs nothing is received or written, the
\* consumer runs only after every worker has finished and every send end
\* is dropped, and at its first receive the channel holds every matching
\* file of the tree.
C21_ProducersBeforeConsumer ==
    mode = "parallel" =>
        /\ pc = "visit" => (handed = <<>> /\ sink = <<>> /\ chan = sent)
        /\ pc \in {"recv", "grep_items", "returned"} =>
              (running = 0 /\ unvisited = {} /\ senders = 0)
        /\ (pc = "recv" /\ handed = <<>>) =>
              /\ chan = sent
              /\ {chan[k] : k \in 1..Len(chan)} = MatchingFiles
              /\ Len(chan) = Cardinality(MatchingFiles)

\* C21 witness: walker.visit has returned with two files on the channel
\* and the consumer has not received yet.
C21_Witness ==
    /\ mode = "parallel"
    /\ pc = "recv"
    /\ handed = <<>>
    /\ Len(chan) = 2

====
